---- MODULE Spec2Model ----
(***************************************************************************)
(* Model of the useConnection hook (client/src/lib/hooks/useConnection.ts) *)
(* of mcp-inspector: the connection state, the request / notification      *)
(* gateway with its per-request timeout, and connect with its token        *)
(* refresh / OAuth redirect recovery.                                      *)
(*                                                                         *)
(* JavaScript runs each continuation to its next await without             *)
(* interleaving, so one action is the code between two suspension points.  *)
(* The suspension points are: mcpClient.request, mcpClient.notification,   *)
(* client.connect, refreshAccessToken, startOAuthFlow, and the awaits of   *)
(* handleTokenRefresh and handleAuthError that lie between the storing of  *)
(* refreshed tokens and the retry of connect.  What the Client and the     *)
(* OAuth collaborator do at a suspension point is theirs to decide: each   *)
(* settlement is a step of its own.                                        *)
(***************************************************************************)
EXTENDS Integers, Sequences, FiniteSets, TLC

\* ------------------------------------------------------------------ bounds
\* invocations in one run of connect (its recursive invocations included),
\* makeRequest and sendNotification
MaxOps == 3
\* successful token refreshes, hence retries of connect, in one run
MaxRetry == 1
\* the same for a run of connect alone, and the connects of such a run
MaxDepth == 4
MaxConnects == 1

\* ------------------------------------------------------- values and inputs
\* sessionStorage.getItem of a missing key (null)
NoItem == "<null>"
\* the sseUrl option of the hook
sseUrl == "https://mcp.example/sse"

NoClient == <<0, 0>>
NoCaps == "<null>"
Undefined == "<undefined>"

Requests == {"tools/list"}
Notifications == {"notifications/roots/list_changed"}
Results == {"result"}
\* what client.getServerCapabilities() can return
DeclaredCaps == {Undefined, "caps"}
\* tokens the OAuth collaborator can hand out; access_token is any string,
\* the empty one included
AccessTokens == {"at1", ""}
RefreshTokens == {"rt1"}
RedirectUrls == {"https://auth.example/authorize"}

\* thrown values: an Error instance with a message, or a bare string
ErrorOf(msg) == [tag |-> "Error", message |-> msg, value |-> Undefined]
StringOf(s) == [tag |-> "string", message |-> Undefined, value |-> s]
NoError == [tag |-> "none", message |-> Undefined, value |-> Undefined]

NotConnectedError == ErrorOf("MCP client not connected")
AbortReason == StringOf("Request timed out")
\* rejections of mcpClient.request other than the abort: transport, schema
RequestErrors == {ErrorOf("Connection closed"), ErrorOf("Invalid result")}
NotificationErrors == {ErrorOf("Connection closed")}

\* error instanceof Error ? error.message : String(error)
ErrorMessage(e) == IF e.tag = "Error" THEN e.message ELSE e.value

\* (e as Error).message ?? String(e)
ErrorString(e) == IF e.message # Undefined THEN e.message ELSE e.value

\* JSON.stringify: the stored value is a serialization, not the live object
Stringify(v) == <<"json", v>>

\* objects handed to pushHistory; UndefinedObject is an omitted argument
ErrorObject(msg) == [error |-> msg]
ResultObject(r) == [result |-> r]
UndefinedObject == [undefined |-> TRUE]


\* --------------------------------------------------------------- variables
VARIABLES
  connectionStatus,    \* useState: "disconnected" | "connected" | "error"
  serverCapabilities,  \* useState: capabilities or null
  mcpClient,           \* useState: the published Client or null
  requestHistory,      \* useState: sequence of {request, response?}
  sessionStorage,      \* ACCESS_TOKEN, REFRESH_TOKEN, SERVER_URL
  windowLocation,      \* window.location.href once a redirect was assigned
  toasts,              \* toast.error calls, in order
  calls,               \* makeRequest / sendNotification invocations
  conns,               \* connect invocations issued by the UI
  log                  \* side effects of the gateway, in program order

vars == <<connectionStatus, serverCapabilities, mcpClient, requestHistory,
          sessionStorage, windowLocation, toasts, calls, conns, log>>

gatewayVars == <<requestHistory, toasts, calls, log>>
connectVars == <<connectionStatus, serverCapabilities, mcpClient,
                 sessionStorage, windowLocation, conns>>

RECURSIVE SumRetries(_)
SumRetries(k) ==
  IF k = 0 THEN 0
  ELSE conns[k].retryCount + (IF conns[k].pc = "retrying" THEN 1 ELSE 0)
         + SumRetries(k - 1)
\* retries of connect taken or about to be taken; the model grants MaxRetry
\* successful refreshes
Retries == SumRetries(Len(conns))
\* invocations so far of makeRequest, sendNotification and connect, the
\* recursive invocations of connect included
Invocations == Len(calls) + Len(conns) + Retries

\* ----------------------------------------------------------------- gateway
\* setRequestHistory([entry]) in place of the functional append
pushHistory_Replacing(prev, c, request, response) ==
  <<[call |-> c,
     request |-> Stringify(request),
     response |-> IF response # UndefinedObject
                    THEN Stringify(response) ELSE Undefined]>>

\* a history that keeps the latest entry only once it has one
pushHistory_DropsOldest(prev, c, request, response) ==
  (IF prev = <<>> THEN prev ELSE Tail(prev)) \o
  <<[call |-> c,
     request |-> Stringify(request),
     response |-> IF response # UndefinedObject
                    THEN Stringify(response) ELSE Undefined]>>

\* the new entry put in front of the previous ones
pushHistory_Prepending(prev, c, request, response) ==
  <<[call |-> c,
     request |-> Stringify(request),
     response |-> IF response # UndefinedObject
                    THEN Stringify(response) ELSE Undefined]>> \o prev

\* pushHistory: append {request: stringify, response: stringify | undefined}.
\* The call field is the index of the invocation that pushed the entry; it
\* is bookkeeping of the model, the program stores the two strings only.
pushHistory(prev, c, request, response) ==
  Append(prev, [call |-> c,
                request |-> Stringify(request),
                response |-> IF response # UndefinedObject
                               THEN Stringify(response) ELSE Undefined])

\* makeRequest without its not-connected guard
MakeRequestStart_Unguarded(client, request) ==
  [kind |-> "request", request |-> request, client |-> client,
   pc |-> "awaiting", timer |-> "armed", aborted |-> FALSE,
   sent |-> TRUE, error |-> NoError, result |-> Undefined]

\* makeRequest up to its first await: the not-connected guard, then the
\* AbortController, the timer and the request handed to the client
MakeRequestStart(client, request) ==
  IF client = NoClient
    THEN [kind |-> "request", request |-> request, client |-> NoClient,
          pc |-> "rejected", timer |-> "none", aborted |-> FALSE,
          sent |-> FALSE, error |-> NotConnectedError, result |-> Undefined]
    ELSE [kind |-> "request", request |-> request, client |-> client,
          pc |-> "awaiting", timer |-> "armed", aborted |-> FALSE,
          sent |-> TRUE, error |-> NoError, result |-> Undefined]

\* sendNotification up to its await
SendNotificationStart(client, notification) ==
  IF client = NoClient
    THEN [kind |-> "notification", request |-> notification,
          client |-> NoClient, pc |-> "rejected", timer |-> "none",
          aborted |-> FALSE, sent |-> FALSE, error |-> NotConnectedError,
          result |-> Undefined]
    ELSE [kind |-> "notification", request |-> notification,
          client |-> client, pc |-> "awaiting", timer |-> "none",
          aborted |-> FALSE, sent |-> TRUE, error |-> NoError,
          result |-> Undefined]

\* the call after the inner try completed: response kept, finally clears
ResolvedCall(call, response) ==
  [call EXCEPT !.pc = "resolved", !.result = response, !.timer = "cleared"]

\* clearTimeout on the success path only, not in a finally
RejectedCall_TimerLeft(call, error) ==
  [call EXCEPT !.pc = "rejected", !.error = error]

\* the call after the inner catch rethrew: finally clears the timer
RejectedCall(call, error) ==
  [call EXCEPT !.pc = "rejected", !.error = error, !.timer = "cleared"]

\* history after the inner try / catch of makeRequest
HistoryOnResponse(prev, c, request, response) ==
  pushHistory(prev, c, request, ResultObject(response))

\* an inner catch that rethrows without recording
HistoryOnError_Unrecorded(prev, c, request, error) == prev

HistoryOnError(prev, c, request, error) ==
  pushHistory(prev, c, request, ErrorObject(ErrorMessage(error)))

\* toast.error((e as Error).message) without the String(e) fallback
ToastOnError_MessageOnly(prev, c, error) ==
  Append(prev, [call |-> c, message |-> error.message])

\* the outer catch of makeRequest: toast.error(errorString)
ToastOnError(prev, c, error) ==
  Append(prev, [call |-> c, message |-> ErrorString(error)])

Event(ev, c) == [ev |-> ev, call |-> c]

\* the toast raised in the inner catch, ahead of pushHistory
LogOnError_ToastFirst(prev, c) ==
  prev \o <<Event("toast", c), Event("history", c), Event("throw", c)>>

\* side effects, in program order, of a makeRequest whose request rejected
LogOnError(prev, c) ==
  prev \o <<Event("history", c), Event("toast", c), Event("throw", c)>>

LogOnResponse(prev, c) ==
  prev \o <<Event("history", c), Event("return", c)>>

MakeRequest(request) ==
  /\ LET c == Len(calls) + 1
         call == MakeRequestStart(mcpClient, request)
     IN /\ calls' = Append(calls, call)
        /\ log' = IF call.pc = "rejected"
                    THEN Append(log, Event("throw", c)) ELSE log
  /\ UNCHANGED <<requestHistory, toasts>>
  /\ UNCHANGED connectVars

\* mcpClient.request resolves with a schema-validated result (also on a
\* signal aborted meanwhile, when the client does not react to it)
RequestResolves(c, response) ==
  /\ calls[c].kind = "request"
  /\ calls[c].pc = "awaiting"
  /\ requestHistory' =
       HistoryOnResponse(requestHistory, c, calls[c].request, response)
  /\ calls' = [calls EXCEPT ![c] = ResolvedCall(calls[c], response)]
  /\ log' = LogOnResponse(log, c)
  /\ UNCHANGED toasts
  /\ UNCHANGED connectVars

\* one AbortController shared by every request: abort reaches all of them
Abort_Shared(cs, c) ==
  [d \in DOMAIN cs |->
     IF cs[d].kind = "request" /\ cs[d].pc = "awaiting"
       THEN [cs[d] EXCEPT !.aborted = TRUE] ELSE cs[d]]

\* abortController.abort(...) of call c: the controller is created per
\* makeRequest invocation, so only the signal of c is aborted
Abort(cs, c) == [cs EXCEPT ![c].aborted = TRUE]

\* the inner catch, the finally and the outer catch of makeRequest for call
\* c of the calls cs
RequestFailure(c, cs, error) ==
  /\ requestHistory' =
       HistoryOnError(requestHistory, c, cs[c].request, error)
  /\ calls' = [cs EXCEPT ![c] = RejectedCall(cs[c], error)]
  /\ toasts' = ToastOnError(toasts, c, error)
  /\ log' = LogOnError(log, c)

\* a failed request that also marks the connection as failed
RequestRejects_SetsErrorStatus(c, error) ==
  /\ calls[c].kind = "request"
  /\ calls[c].pc = "awaiting"
  /\ RequestFailure(c, calls, error)
  /\ connectionStatus' = "error"
  /\ UNCHANGED <<serverCapabilities, mcpClient, sessionStorage,
                 windowLocation, conns>>

\* mcpClient.request rejects: transport failure or schema validation
RequestRejects(c, error) ==
  /\ calls[c].kind = "request"
  /\ calls[c].pc = "awaiting"
  /\ RequestFailure(c, calls, error)
  /\ UNCHANGED connectVars

\* the setTimeout callback: abortController.abort("Request timed out").
\* It aborts the signal and nothing else; the request stays in flight until
\* the client settles it.
TimeoutFires(c) ==
  /\ calls[c].timer = "armed"
  /\ calls' = [Abort(calls, c) EXCEPT ![c].timer = "fired"]
  /\ UNCHANGED <<requestHistory, toasts, log>>
  /\ UNCHANGED connectVars

\* mcpClient.request rejects with the reason of its aborted signal
AbortRejects(c) ==
  /\ calls[c].kind = "request"
  /\ calls[c].pc = "awaiting"
  /\ calls[c].aborted
  /\ RequestFailure(c, calls, AbortReason)
  /\ UNCHANGED connectVars

SendNotification(notification) ==
  /\ LET c == Len(calls) + 1
         call == SendNotificationStart(mcpClient, notification)
     IN /\ calls' = Append(calls, call)
        /\ log' = IF call.pc = "rejected"
                    THEN Append(log, Event("throw", c)) ELSE log
  /\ UNCHANGED <<requestHistory, toasts>>
  /\ UNCHANGED connectVars

\* mcpClient.notification resolves: pushHistory(notification)
NotificationSent(c) ==
  /\ calls[c].kind = "notification"
  /\ calls[c].pc = "awaiting"
  /\ requestHistory' =
       pushHistory(requestHistory, c, calls[c].request, UndefinedObject)
  /\ calls' = [calls EXCEPT ![c].pc = "resolved"]
  /\ log' = log \o <<Event("history", c), Event("return", c)>>
  /\ UNCHANGED toasts
  /\ UNCHANGED connectVars

\* mcpClient.notification rejects: toast and rethrow, nothing pushed
NotificationFails(c, error) ==
  /\ calls[c].kind = "notification"
  /\ calls[c].pc = "awaiting"
  /\ calls' = [calls EXCEPT ![c].pc = "rejected", ![c].error = error]
  /\ toasts' = ToastOnError(toasts, c, error)
  /\ log' = log \o <<Event("toast", c), Event("throw", c)>>
  /\ UNCHANGED requestHistory
  /\ UNCHANGED connectVars

\* ----------------------------------------------------------------- connect
\* handshake failures: SseError with a status code, or any other error
SseError(code) == [tag |-> "SseError", code |-> code]
OtherError == [tag |-> "Error", code |-> 0]
HandshakeErrors == {SseError(401), SseError(500), OtherError}
\* what handleTokenRefresh threw, if it ran and threw
NothingThrown == "none"
RefreshError == "refresh error"
OAuthError == "startOAuthFlow error"

\* error instanceof SseError && error.code === 401
IsAuthError(error) == error.tag = "SseError" /\ error.code = 401

\* the proxyServerUrl option; new URL() throws on one that does not parse
ProxyServerUrls == {"http://localhost:3000", "not a url"}
ParsesAsUrl(u) == u = "http://localhost:3000"

\* a headers object without the Authorization key
NoHeader == <<>>

\* if (v): a stored or returned string is truthy unless it is absent or ""
Truthy(v) == v \notin {NoItem, Undefined, ""}

\* the headers of one connect attempt, read from sessionStorage
Headers(storage) ==
  IF Truthy(storage.access)
    THEN [Authorization |-> <<"Bearer", storage.access>>]
    ELSE [Authorization |-> NoHeader]

\* Fields of a connect invocation: pc is its suspension point ("failing":
\* resuming towards the top-level catch); branch is the
\* branch handleAuthError took for the failed handshake of the current
\* attempt; outcome is how the invocation ended ("connected": it published a
\* session, "error": it ran setConnectionStatus("error"), "quiet": it
\* returned on the 401 check); redirected tells that it assigned
\* window.location.href; declared is what client.getServerCapabilities()
\* returned to it.
\* one invocation of connect up to await client.connect(clientTransport)
ConnectAttempt(k, retryCount, storage, conn) ==
  [conn EXCEPT !.pc = "handshake",
               !.retryCount = retryCount,
               !.client = <<k, retryCount>>,
               !.branch = "none",
               !.headers = Headers(storage)]

NewConn ==
  [pc |-> "start", retryCount |-> 0, client |-> NoClient,
   headers |-> [Authorization |-> NoHeader], branch |-> "none",
   refreshCalls |-> 0, refreshed |-> NoItem, refreshThrown |-> NothingThrown,
   declared |-> Undefined, outcome |-> "pending", redirected |-> FALSE]

\* initiateOAuthFlow that leaves the refresh token in place
InitiateOAuthFlow_KeepsRefresh(storage) ==
  [storage EXCEPT !.access = NoItem, !.serverUrl = sseUrl]

\* initiateOAuthFlow that leaves the access token in place
InitiateOAuthFlow_KeepsAccess(storage) ==
  [storage EXCEPT !.refresh = NoItem, !.serverUrl = sseUrl]

\* initiateOAuthFlow up to await startOAuthFlow(sseUrl)
InitiateOAuthFlow(storage) ==
  [storage EXCEPT !.access = NoItem, !.refresh = NoItem,
                  !.serverUrl = sseUrl]

\* handleTokenRefresh after refreshAccessToken resolved
StoreTokens(storage, tokens) ==
  [storage EXCEPT !.access = tokens.access_token,
                  !.refresh = IF Truthy(tokens.refresh_token)
                                THEN tokens.refresh_token ELSE @]

\* OAuthTokens: refresh_token is optional and may come back empty
RefreshResults ==
  [access_token : AccessTokens,
   refresh_token : RefreshTokens \cup {Undefined, ""}]

\* the UI calls connect(); the top-level catch turns a throwing URL
\* constructor into the error status
Connect(proxyServerUrl) ==
  /\ LET k == Len(conns) + 1
     IN IF ParsesAsUrl(proxyServerUrl)
          THEN /\ conns' = Append(conns,
                              ConnectAttempt(k, 0, sessionStorage, NewConn))
               /\ UNCHANGED connectionStatus
          ELSE /\ conns' = Append(conns, [NewConn EXCEPT !.pc = "done",
                                                          !.outcome = "error"])
               /\ connectionStatus' = "error"
  /\ UNCHANGED <<serverCapabilities, mcpClient, sessionStorage,
                 windowLocation>>
  /\ UNCHANGED gatewayVars

\* setServerCapabilities(capabilities) without the ?? null
PublishedCapabilities_Raw(capabilities) == capabilities

\* setServerCapabilities(capabilities ?? null)
PublishedCapabilities(capabilities) ==
  IF capabilities # Undefined THEN capabilities ELSE NoCaps

\* a success that keeps a session handle published earlier
HandshakeSucceeds_KeepsHandle(k, capabilities) ==
  /\ conns[k].pc = "handshake"
  /\ serverCapabilities' = PublishedCapabilities(capabilities)
  /\ mcpClient' = IF mcpClient # NoClient THEN mcpClient ELSE conns[k].client
  /\ connectionStatus' = "connected"
  /\ conns' = [conns EXCEPT ![k].pc = "done", ![k].outcome = "connected",
                            ![k].declared = capabilities]
  /\ UNCHANGED <<sessionStorage, windowLocation>>
  /\ UNCHANGED gatewayVars

\* client.connect resolved: capabilities, session handle, status
HandshakeSucceeds(k, capabilities) ==
  /\ conns[k].pc = "handshake"
  /\ serverCapabilities' = PublishedCapabilities(capabilities)
  /\ mcpClient' = conns[k].client
  /\ connectionStatus' = "connected"
  /\ conns' = [conns EXCEPT ![k].pc = "done", ![k].outcome = "connected",
                            ![k].declared = capabilities]
  /\ UNCHANGED <<sessionStorage, windowLocation>>
  /\ UNCHANGED gatewayVars

\* client.connect rejected: handleAuthError up to its first await.  For a
\* failure that is not a 401 handleAuthError returns false at once, and
\* connect resumes from await handleAuthError(error) to rethrow later.
HandshakeFails(k, error) ==
  /\ conns[k].pc = "handshake"
  /\ IF IsAuthError(error)
       THEN IF Truthy(sessionStorage.refresh)
              THEN /\ conns' = [conns EXCEPT
                                  ![k].pc = "refreshing",
                                  ![k].branch = "refresh",
                                  ![k].refreshCalls = @ + 1]
                   /\ UNCHANGED <<sessionStorage, connectionStatus>>
              ELSE /\ conns' = [conns EXCEPT ![k].pc = "oauth",
                                             ![k].branch = "redirect"]
                   /\ sessionStorage' = InitiateOAuthFlow(sessionStorage)
                   /\ UNCHANGED connectionStatus
       ELSE /\ conns' = [conns EXCEPT ![k].pc = "failing",
                                      ![k].branch = "notAuth"]
            /\ UNCHANGED <<sessionStorage, connectionStatus>>
  /\ UNCHANGED <<serverCapabilities, mcpClient, windowLocation>>
  /\ UNCHANGED gatewayVars

\* return connect(undefined, retryCount + 1)
RetryCountOfRetry(retryCount) == retryCount + 1

\* refreshAccessToken resolved: handleTokenRefresh stores the tokens and
\* returns the access token.  handleAuthError and then connect resume after
\* their own awaits, so continuations of other invocations that are ready
\* run before the retry.
RefreshSucceeds(k, tokens) ==
  /\ conns[k].pc = "refreshing"
  /\ sessionStorage' = StoreTokens(sessionStorage, tokens)
  /\ conns' = [conns EXCEPT ![k].pc = "retrying",
                            ![k].refreshed = tokens.access_token]
  /\ UNCHANGED <<connectionStatus, serverCapabilities, mcpClient,
                 windowLocation>>
  /\ UNCHANGED gatewayVars

\* a retry that gives up once retryCount has reached 2
Retry_GivesUp(k) ==
  /\ conns[k].pc = "retrying"
  /\ IF conns[k].retryCount < 2
       THEN /\ conns' = [conns EXCEPT ![k] =
                 ConnectAttempt(k, RetryCountOfRetry(conns[k].retryCount),
                                sessionStorage, conns[k])]
            /\ UNCHANGED connectionStatus
       ELSE /\ conns' = [conns EXCEPT ![k].pc = "done",
                                      ![k].outcome = "error"]
            /\ connectionStatus' = "error"
  /\ UNCHANGED <<serverCapabilities, mcpClient, sessionStorage,
                 windowLocation>>
  /\ UNCHANGED gatewayVars

\* handleAuthError returned true: connect re-invokes itself with
\* retryCount + 1, and the new attempt reads the access token that
\* sessionStorage holds at that moment
Retry(k) ==
  /\ conns[k].pc = "retrying"
  /\ conns' = [conns EXCEPT ![k] =
       ConnectAttempt(k, RetryCountOfRetry(conns[k].retryCount),
                      sessionStorage, conns[k])]
  /\ UNCHANGED <<connectionStatus, serverCapabilities, mcpClient,
                 sessionStorage, windowLocation>>
  /\ UNCHANGED gatewayVars

\* refreshAccessToken rejected: the catch of handleTokenRefresh starts
\* initiateOAuthFlow
RefreshFails(k) ==
  /\ conns[k].pc = "refreshing"
  /\ sessionStorage' = InitiateOAuthFlow(sessionStorage)
  /\ conns' = [conns EXCEPT ![k].pc = "oauthFallback"]
  /\ UNCHANGED <<connectionStatus, serverCapabilities, mcpClient,
                 windowLocation>>
  /\ UNCHANGED gatewayVars

\* a catch in handleTokenRefresh that ends without "throw error"
ThrownByRefreshCatch_Swallowed(original, fallbackError) == fallbackError

\* what leaves the catch of handleTokenRefresh: await initiateOAuthFlow()
\* throws its own error, otherwise "throw error" rethrows the original
ThrownByRefreshCatch(original, fallbackError) ==
  IF fallbackError # NothingThrown THEN fallbackError ELSE original

\* startOAuthFlow resolved: window.location.href = redirectUrl.  From
\* handleAuthError it returns false; from handleTokenRefresh the original
\* refresh error is rethrown and swallowed by handleAuthError, which
\* returns false.  connect then returns without touching the status.
RedirectUrlResolves(k, redirectUrl) ==
  /\ conns[k].pc \in {"oauth", "oauthFallback"}
  /\ windowLocation' = redirectUrl
  /\ conns' = [conns EXCEPT
       ![k].pc = "done",
       ![k].outcome = "quiet",
       ![k].redirected = TRUE,
       ![k].refreshThrown =
          IF conns[k].pc = "oauthFallback"
            THEN ThrownByRefreshCatch(RefreshError, NothingThrown) ELSE @]
  /\ UNCHANGED <<connectionStatus, serverCapabilities, mcpClient,
                 sessionStorage>>
  /\ UNCHANGED gatewayVars

\* startOAuthFlow rejected.  From handleAuthError the error leaves
\* initiateOAuthFlow and handleAuthError and is on its way, through the
\* awaits of both, to the top-level catch of connect.  From the catch of
\* handleTokenRefresh it replaces the refresh error, is swallowed by the
\* catch in handleAuthError, and connect returns on the 401 check.
RedirectUrlRejects(k) ==
  /\ conns[k].pc \in {"oauth", "oauthFallback"}
  /\ IF conns[k].pc = "oauth"
       THEN conns' = [conns EXCEPT ![k].pc = "failing"]
       ELSE conns' = [conns EXCEPT ![k].pc = "done",
                                   ![k].outcome = "quiet",
                                   ![k].refreshThrown =
                                     ThrownByRefreshCatch(RefreshError,
                                                          OAuthError)]
  /\ UNCHANGED <<connectionStatus, serverCapabilities, mcpClient,
                 sessionStorage, windowLocation>>
  /\ UNCHANGED gatewayVars

\* a top-level catch that also drops the published session
TopLevelCatch_ResetsSession(k) ==
  /\ conns[k].pc = "failing"
  /\ conns' = [conns EXCEPT ![k].pc = "done", ![k].outcome = "error"]
  /\ connectionStatus' = "error"
  /\ mcpClient' = NoClient
  /\ serverCapabilities' = NoCaps
  /\ UNCHANGED <<sessionStorage, windowLocation>>
  /\ UNCHANGED gatewayVars

\* the top-level catch of connect, reached once connect has resumed from
\* await handleAuthError(error): console.error, setConnectionStatus("error")
TopLevelCatch(k) ==
  /\ conns[k].pc = "failing"
  /\ conns' = [conns EXCEPT ![k].pc = "done", ![k].outcome = "error"]
  /\ connectionStatus' = "error"
  /\ UNCHANGED <<serverCapabilities, mcpClient, sessionStorage,
                 windowLocation>>
  /\ UNCHANGED gatewayVars

\* ----------------------------------------------------------- specification
\* what sessionStorage holds when the hook starts: each key absent, empty
\* or set, independently of the other
InitialStorage ==
  [access : {NoItem, "", "at0"}, refresh : {NoItem, "", "rt0"},
   serverUrl : {NoItem}]

Init ==
  /\ connectionStatus = "disconnected"
  /\ serverCapabilities = NoCaps
  /\ mcpClient = NoClient
  /\ requestHistory = <<>>
  /\ sessionStorage \in InitialStorage
  /\ windowLocation = NoItem
  /\ toasts = <<>>
  /\ calls = <<>>
  /\ conns = <<>>
  /\ log = <<>>

\* The program bounds neither the number of invocations nor the number of
\* retries; the bounds of a run sit here, outside the actions.
Next ==
  \/ Invocations < MaxOps /\ \E r \in Requests : MakeRequest(r)
  \/ \E c \in 1..Len(calls) : \E r \in Results : RequestResolves(c, r)
  \/ \E c \in 1..Len(calls) : \E e \in RequestErrors : RequestRejects(c, e)
  \/ \E c \in 1..Len(calls) : TimeoutFires(c)
  \/ \E c \in 1..Len(calls) : AbortRejects(c)
  \/ Invocations < MaxOps /\ \E n \in Notifications : SendNotification(n)
  \/ \E c \in 1..Len(calls) : NotificationSent(c)
  \/ \E c \in 1..Len(calls) : \E e \in NotificationErrors :
        NotificationFails(c, e)
  \/ Invocations < MaxOps /\ \E u \in ProxyServerUrls : Connect(u)
  \/ \E k \in 1..Len(conns) : \E caps \in DeclaredCaps :
        HandshakeSucceeds(k, caps)
  \/ \E k \in 1..Len(conns) : \E e \in HandshakeErrors : HandshakeFails(k, e)
  \/ Invocations < MaxOps /\ Retries < MaxRetry
       /\ \E k \in 1..Len(conns) : \E t \in RefreshResults :
             RefreshSucceeds(k, t)
  \/ \E k \in 1..Len(conns) : Retry(k)
  \/ \E k \in 1..Len(conns) : RefreshFails(k)
  \/ \E k \in 1..Len(conns) : \E u \in RedirectUrls :
        RedirectUrlResolves(k, u)
  \/ \E k \in 1..Len(conns) : RedirectUrlRejects(k)
  \/ \E k \in 1..Len(conns) : TopLevelCatch(k)

Spec == Init /\ [][Next]_vars

\* connect alone, retried as deep as MaxDepth
RetryNext ==
  \/ Len(conns) < MaxConnects /\ \E u \in ProxyServerUrls : Connect(u)
  \/ \E k \in 1..Len(conns) : \E caps \in DeclaredCaps :
        HandshakeSucceeds(k, caps)
  \/ \E k \in 1..Len(conns) : \E e \in HandshakeErrors : HandshakeFails(k, e)
  \/ Retries < MaxDepth
       /\ \E k \in 1..Len(conns) : \E t \in RefreshResults :
             RefreshSucceeds(k, t)
  \/ \E k \in 1..Len(conns) : Retry(k)
  \/ \E k \in 1..Len(conns) : RefreshFails(k)
  \/ \E k \in 1..Len(conns) : \E u \in RedirectUrls :
        RedirectUrlResolves(k, u)
  \/ \E k \in 1..Len(conns) : RedirectUrlRejects(k)
  \/ \E k \in 1..Len(conns) : TopLevelCatch(k)

RetrySpec == Init /\ [][RetryNext]_vars

TypeOK ==
  /\ connectionStatus \in {"disconnected", "connected", "error"}
  /\ Invocations <= MaxOps
  /\ Retries <= MaxRetry

\* ------------------------------------------------------------------ claims
Settled(c) == calls[c].pc # "awaiting"
Established(c) == calls[c].client # NoClient
IsRequest(c) == calls[c].kind = "request"
IsNotification(c) == calls[c].kind = "notification"
EntriesOf(c) == {i \in DOMAIN requestHistory : requestHistory[i].call = c}
ToastsOf(c) == {i \in DOMAIN toasts : toasts[i].call = c}
LogOf(ev, c) == {i \in DOMAIN log : log[i] = Event(ev, c)}
\* position in the log at which call c returned or threw to its caller
SettlePos(c) ==
  CHOOSE i \in DOMAIN log :
    log[i].call = c /\ log[i].ev \in {"return", "throw"}
\* the calls the code records: requests on an established session once
\* settled, and notifications that were sent
Recorded(c) ==
  \/ IsRequest(c) /\ Established(c) /\ Settled(c)
  \/ IsNotification(c) /\ calls[c].pc = "resolved"

\* C1 as stated: once every issued call has settled, the history holds one
\* entry per call issued.
C1_LengthEqualsCallsIssued ==
  (\A c \in DOMAIN calls : Settled(c))
    => Len(requestHistory) = Len(calls)

\* C1 amended: the history holds exactly one entry for every settled
\* makeRequest issued on an established session and for every
\* sendNotification that was sent, and none for a call issued with no
\* session or for a notification that failed; its length is their number.
C1_LengthEqualsCallsRecorded ==
  /\ Len(requestHistory) =
       Cardinality({c \in DOMAIN calls : Recorded(c)})
  /\ \A c \in DOMAIN calls :
       Cardinality(EntriesOf(c)) = IF Recorded(c) THEN 1 ELSE 0

C1_Witness ==
  /\ \A c \in DOMAIN calls : Settled(c)
  /\ \E c \in DOMAIN calls : ~Established(c)
  /\ \E c \in DOMAIN calls :
       IsRequest(c) /\ Established(c) /\ calls[c].pc = "rejected"
  /\ Len(requestHistory) = 1
  /\ Len(calls) = 2

\* C2 as stated: history entries are in the order their calls were issued.
C2_IssuanceOrder ==
  \A i, j \in DOMAIN requestHistory :
    i < j => requestHistory[i].call < requestHistory[j].call

\* C2 amended: history entries are in the order their calls settled; an
\* entry precedes another exactly when its call returned or threw first.
C2_SettleOrder ==
  \A i, j \in DOMAIN requestHistory :
    i < j <=> SettlePos(requestHistory[i].call)
                < SettlePos(requestHistory[j].call)

\* two requests in flight together, the later one answered first
C2_Witness ==
  \E i, j \in DOMAIN requestHistory :
    /\ i < j
    /\ requestHistory[i].call > requestHistory[j].call
    /\ IsRequest(requestHistory[i].call)
    /\ IsRequest(requestHistory[j].call)

C4_RetryUsesRefreshedToken ==
  /\ [](\A k \in DOMAIN conns :
         conns[k].refreshCalls =
           conns[k].retryCount +
             (IF conns[k].pc \in {"refreshing", "retrying", "oauthFallback"}
                 \/ conns[k].refreshThrown # NothingThrown
                THEN 1 ELSE 0))
  /\ [][\A k \in DOMAIN conns :
          /\ (conns[k].pc = "handshake" /\ conns'[k].pc = "refreshing") =>
               /\ sessionStorage.refresh \notin {NoItem, ""}
               /\ conns'[k].refreshCalls = conns[k].refreshCalls + 1
               /\ conns'[k].retryCount = conns[k].retryCount
          /\ (conns[k].pc = "refreshing" /\ conns'[k].pc = "retrying") =>
               /\ sessionStorage'.access = conns'[k].refreshed
               /\ conns'[k].refreshed \in AccessTokens
          /\ (conns[k].pc = "retrying" /\ conns'[k].pc = "handshake") =>
               /\ conns'[k].retryCount = conns[k].retryCount + 1
               /\ conns'[k].refreshCalls = conns[k].refreshCalls
               /\ conns'[k].headers.Authorization =
                    <<"Bearer", conns[k].refreshed>>
          /\ conns'[k].retryCount # conns[k].retryCount =>
               conns[k].pc = "retrying"
       ]_vars

\* a connect invocation that took the no-refresh-token branch of
\* handleAuthError and has finished
RedirectBranchDone(k) ==
  conns[k].branch = "redirect" /\ conns[k].pc = "done"

\* C5 as stated: a connect whose handshake failed with 401 while no refresh
\* token was stored never sets the error status.
C5_NeverError ==
  \A k \in DOMAIN conns : RedirectBranchDone(k) => conns[k].outcome # "error"

\* C5 amended: on a 401 handshake failure with no refresh token stored,
\* connect removes both tokens and stores the server address without
\* touching the status; when the redirect URL is then obtained it assigns
\* the redirect and leaves the status alone; when obtaining the redirect
\* URL fails it assigns nothing, and once it has resumed in its top-level
\* catch it sets the status to error.
C5_ClearsTokensErrorOnlyWithoutRedirect ==
  [][\A k \in DOMAIN conns :
       /\ (conns[k].pc = "handshake" /\ conns'[k].pc = "oauth") =>
            /\ sessionStorage.refresh \in {NoItem, ""}
            /\ sessionStorage'.access = NoItem
            /\ sessionStorage'.refresh = NoItem
            /\ sessionStorage'.serverUrl = sseUrl
            /\ connectionStatus' = connectionStatus
       /\ (conns[k].pc = "oauth" /\ conns'[k].pc # "oauth") =>
            IF conns'[k].redirected
              THEN /\ conns'[k].pc = "done"
                   /\ connectionStatus' = connectionStatus
                   /\ windowLocation' \in RedirectUrls
                   /\ conns'[k].outcome = "quiet"
              ELSE /\ conns'[k].pc = "failing"
                   /\ connectionStatus' = connectionStatus
                   /\ windowLocation' = windowLocation
                   /\ conns'[k].outcome = "pending"
       /\ (conns[k].pc = "failing" /\ conns'[k].pc # "failing") =>
            /\ conns'[k].pc = "done"
            /\ conns'[k].outcome = "error"
            /\ ~conns'[k].redirected
            /\ connectionStatus' = "error"
            /\ windowLocation' = windowLocation
       /\ (conns[k].branch = "redirect" /\ conns'[k].pc = "done") =>
            (conns'[k].outcome = "error" <=> ~conns'[k].redirected)
    ]_vars

\* one connect that was redirected and left the status alone, another
\* whose redirect URL could not be obtained and that set the error status
C5_Witness ==
  /\ \E k \in DOMAIN conns :
       /\ RedirectBranchDone(k)
       /\ conns[k].redirected
       /\ conns[k].outcome = "quiet"
  /\ \E k \in DOMAIN conns :
       /\ RedirectBranchDone(k)
       /\ ~conns[k].redirected
       /\ conns[k].outcome = "error"
  /\ connectionStatus = "error"
  /\ sessionStorage.access = NoItem
  /\ sessionStorage.refresh = NoItem
  /\ sessionStorage.serverUrl = sseUrl

\* C6: a makeRequest or sendNotification issued with no session handle has
\* failed with the not-connected error by the time it was issued, nothing
\* was sent for it, no timer was armed and nothing was aborted.
C6_NotConnectedFailsAtOnce ==
  \A c \in DOMAIN calls :
    ~Established(c) =>
      /\ calls[c].pc = "rejected"
      /\ calls[c].error.message = "MCP client not connected"
      /\ ~calls[c].sent
      /\ calls[c].timer = "none"
      /\ ~calls[c].aborted
      /\ LogOf("throw", c) # {}

C6_Witness ==
  /\ \E c \in DOMAIN calls : IsRequest(c) /\ ~Established(c)
  /\ \E c \in DOMAIN calls : IsNotification(c) /\ ~Established(c)

\* C7 as stated: every finished connect invocation either published a
\* session, or set the error status, or returned quietly with an
\* authorization redirect assigned.
C7_UnrecoveredFailureSetsError ==
  \A k \in DOMAIN conns :
    conns[k].pc = "done" =>
      \/ conns[k].outcome = "connected"
      \/ conns[k].outcome = "error"
      \/ conns[k].outcome = "quiet" /\ conns[k].redirected

\* the message String(e) or e.message gives for a thrown value
MessageOf(e) == IF e.tag = "Error" THEN e.message ELSE e.value

\* C8 as stated: every failed makeRequest raised exactly one toast with the
\* error's message and threw; a successful one raised none.
C8_EveryFailureToasts ==
  \A c \in DOMAIN calls :
    IsRequest(c) =>
      /\ calls[c].pc = "rejected" =>
           /\ Cardinality(ToastsOf(c)) = 1
           /\ \A i \in ToastsOf(c) :
                toasts[i].message = MessageOf(calls[c].error)
           /\ Cardinality(LogOf("throw", c)) = 1
      /\ calls[c].pc = "resolved" => ToastsOf(c) = {}

\* C8 amended: every makeRequest that failed on an established session
\* (timeout, transport error, schema-validation error) raised exactly one
\* toast with the error's message and then threw; a makeRequest issued with
\* no session threw the not-connected error without a toast; a successful
\* makeRequest raised no toast.
C8_EstablishedFailureToasts ==
  \A c \in DOMAIN calls :
    IsRequest(c) =>
      /\ (calls[c].pc = "rejected" /\ Established(c)) =>
           /\ Cardinality(ToastsOf(c)) = 1
           /\ \A i \in ToastsOf(c) :
                toasts[i].message = MessageOf(calls[c].error)
           /\ Cardinality(LogOf("throw", c)) = 1
           /\ \A i \in LogOf("toast", c), j \in LogOf("throw", c) : i < j
      /\ (calls[c].pc = "rejected" /\ ~Established(c)) =>
           /\ ToastsOf(c) = {}
           /\ Cardinality(LogOf("throw", c)) = 1
      /\ calls[c].pc = "resolved" =>
           /\ ToastsOf(c) = {}
           /\ LogOf("throw", c) = {}

C8_Witness ==
  /\ \E c \in DOMAIN calls :
       /\ IsRequest(c) /\ Established(c)
       /\ calls[c].error = AbortReason
       /\ \E i \in ToastsOf(c) : toasts[i].message = "Request timed out"
  /\ \E c \in DOMAIN calls :
       /\ IsRequest(c) /\ ~Established(c)
       /\ ToastsOf(c) = {}

\* C9 as stated: every makeRequest or sendNotification that threw has a
\* history entry that was pushed before the throw.
C9_EveryFailureRecordedFirst ==
  \A c \in DOMAIN calls :
    calls[c].pc = "rejected" =>
      /\ EntriesOf(c) # {}
      /\ \A j \in LogOf("throw", c) : \E i \in LogOf("history", c) : i < j

\* C9 amended: every makeRequest that failed on an established session was
\* pushed to the history before its toast and before it threw; a failed
\* sendNotification and a call issued with no session threw without any
\* history entry.
C9_RequestFailureRecordedFirst ==
  \A c \in DOMAIN calls :
    /\ Cardinality(LogOf("history", c)) = Cardinality(EntriesOf(c))
    /\ calls[c].pc = "rejected" =>
         IF IsRequest(c) /\ Established(c)
           THEN /\ Cardinality(EntriesOf(c)) = 1
                /\ \A i \in EntriesOf(c) :
                     requestHistory[i].response =
                       Stringify([error |-> MessageOf(calls[c].error)])
                /\ \A h \in LogOf("history", c) :
                     /\ \E t \in LogOf("toast", c) : h < t
                     /\ \E j \in LogOf("throw", c) : h < j
           ELSE /\ EntriesOf(c) = {}
                /\ LogOf("throw", c) # {}

C9_Witness ==
  /\ \E c \in DOMAIN calls :
       /\ IsRequest(c) /\ Established(c) /\ calls[c].pc = "rejected"
       /\ calls[c].error \in RequestErrors
       /\ EntriesOf(c) # {}
  /\ \E c \in DOMAIN calls :
       /\ IsNotification(c) /\ Established(c) /\ calls[c].pc = "rejected"
       /\ EntriesOf(c) = {}

\* C10: no settled call has an armed timer: the timer of a request on an
\* established session is cleared once the request has settled, a timer is
\* armed only on a request in flight, and a timer that has fired did so on
\* a request that was still in flight.
C10_TimerClearedOnSettle ==
  \A c \in DOMAIN calls :
    /\ Settled(c) => calls[c].timer \in {"none", "cleared"}
    /\ calls[c].timer \in {"armed", "fired"} <=>
         (IsRequest(c) /\ calls[c].pc = "awaiting")
    /\ calls[c].timer = "armed" => ~calls[c].aborted
    /\ (IsRequest(c) /\ Established(c) /\ Settled(c)) =>
         calls[c].timer = "cleared"

C10_Witness ==
  /\ \E c \in DOMAIN calls :
       calls[c].pc = "resolved" /\ calls[c].timer = "cleared"
  /\ \E c \in DOMAIN calls :
       /\ calls[c].pc = "rejected" /\ calls[c].timer = "cleared"
       /\ calls[c].error \in RequestErrors

\* C11: the step in which a handshake succeeds sets the capability set to
\* what the server declared, or to null when it declared none, publishes the
\* Client that this attempt constructed, and sets the status to connected.
C11_SuccessPublishesSession ==
  [][\A k \in DOMAIN conns :
       (conns[k].pc = "handshake" /\ conns'[k].outcome = "connected") =>
         /\ conns'[k].pc = "done"
         /\ serverCapabilities' =
              (IF conns'[k].declared = Undefined
                 THEN "<null>" ELSE conns'[k].declared)
         /\ mcpClient' = <<k, conns[k].retryCount>>
         /\ mcpClient' # NoClient
         /\ connectionStatus' = "connected"
    ]_vars

\* one connect that published declared capabilities over another that had
\* published none
C11_Witness ==
  /\ \E k \in DOMAIN conns :
       /\ conns[k].outcome = "connected"
       /\ conns[k].declared = Undefined
  /\ \E k \in DOMAIN conns :
       /\ conns[k].outcome = "connected"
       /\ conns[k].declared = "caps"
       /\ mcpClient = conns[k].client
  /\ serverCapabilities = "caps"
  /\ connectionStatus = "connected"

\* C12 as stated: a connect invocation that finished after a failed
\* handshake returned quietly exactly when the failure was a 401 for which
\* this invocation assigned the authorization redirect.
C12_QuietIffRedirected ==
  \A k \in DOMAIN conns :
    (conns[k].pc = "done" /\ conns[k].branch # "none") =>
      (conns[k].outcome = "quiet"
         <=> (conns[k].branch \in {"refresh", "redirect"}
                /\ conns[k].redirected))

\* a connect invocation whose token refresh failed and whose fallback
\* initiateOAuthFlow has ended
FallbackDone(k) == conns[k].branch = "refresh" /\ conns[k].pc = "done"

\* C13 as stated: after a failed refresh and the fallback, handleTokenRefresh
\* raised the original refresh error, whether or not the fallback succeeded.
C13_AlwaysOriginalError ==
  \A k \in DOMAIN conns :
    FallbackDone(k) => conns[k].refreshThrown = "refresh error"

\* C13 amended: after a failed refresh handleTokenRefresh always raises;
\* it raises the original refresh error when the fallback assigned the
\* redirect and the error of startOAuthFlow when the fallback failed.
C13_OriginalErrorUnlessFallbackFails ==
  \A k \in DOMAIN conns :
    /\ FallbackDone(k) =>
         conns[k].refreshThrown =
           (IF conns[k].redirected
              THEN "refresh error" ELSE "startOAuthFlow error")
    /\ ~FallbackDone(k) => conns[k].refreshThrown = "none"

C13_Witness ==
  /\ \E k \in DOMAIN conns :
       /\ FallbackDone(k) /\ conns[k].redirected
       /\ conns[k].refreshThrown = "refresh error"
  /\ \E k \in DOMAIN conns :
       /\ FallbackDone(k) /\ ~conns[k].redirected
       /\ conns[k].refreshThrown = "startOAuthFlow error"

\* C14: the step in which the timer of one request fires aborts the signal
\* of that request only and records nothing; every other call is left
\* exactly as it was, so a request in flight whose own timer has not fired
\* stays un-aborted with its timer armed, and it can still be answered or
\* time out itself.
C14_TimeoutAbortsOnlyItsRequest ==
  /\ [][\A c \in DOMAIN calls :
          (~calls[c].aborted /\ calls'[c].aborted) =>
            /\ calls[c].timer = "armed"
            /\ calls'[c].timer = "fired"
            /\ calls'[c].pc = calls[c].pc
            /\ \A d \in DOMAIN calls \ {c} : calls'[d] = calls[d]
            /\ UNCHANGED <<requestHistory, toasts, log>>
       ]_vars
  /\ [](\A d \in DOMAIN calls :
         (IsRequest(d) /\ calls[d].pc = "awaiting" /\ ~calls[d].aborted) =>
           /\ calls[d].timer = "armed"
           /\ ENABLED TimeoutFires(d)
           /\ \A r \in Results : ENABLED RequestResolves(d, r))

\* two requests in flight together: the first timed out, the second was
\* answered with its own response afterwards
C14_Witness ==
  \E c, d \in DOMAIN calls :
    /\ c # d
    /\ calls[c].aborted /\ calls[c].error = AbortReason
    /\ IsRequest(d) /\ calls[d].pc = "resolved" /\ ~calls[d].aborted
    /\ calls[d].result \in Results
    /\ c < d
    /\ SettlePos(c) < SettlePos(d)
    /\ \E i \in EntriesOf(d) :
         requestHistory[i].response \in {Stringify(ResultObject(r)) : r \in Results}

\* C15: a retry starts a new attempt of the same connect invocation with
\* retryCount one greater and a newly constructed Client, the invocation
\* stays unfinished until that attempt ends, and whatever retryCount is, a
\* 401 met with a stored refresh token leads to a refresh, a refresh may
\* succeed and a successful refresh leads to a retry: no attempt ends
\* because of its retryCount.
C15_RetryIncrementsWithoutCeiling ==
  /\ [][\A k \in DOMAIN conns :
          /\ (conns[k].pc = "retrying" /\ conns'[k].pc # "retrying") =>
               /\ conns'[k].pc = "handshake"
               /\ conns'[k].retryCount = conns[k].retryCount + 1
               /\ conns'[k].client = <<k, conns[k].retryCount + 1>>
               /\ conns'[k].outcome = "pending"
          /\ (conns[k].pc = "refreshing" /\ conns'[k].pc # "refreshing") =>
               /\ conns'[k].pc \in {"retrying", "oauthFallback"}
               /\ conns'[k].outcome = "pending"
          /\ (conns[k].pc = "handshake" /\ conns'[k].pc = "refreshing") =>
               /\ Truthy(sessionStorage.refresh)
               /\ conns'[k].retryCount = conns[k].retryCount
          /\ conns'[k].retryCount >= conns[k].retryCount
          /\ conns'[k].retryCount # conns[k].retryCount =>
               conns[k].pc = "retrying"
       ]_vars
  /\ [](\A k \in DOMAIN conns :
         /\ conns[k].pc = "refreshing" =>
              \A t \in RefreshResults : ENABLED RefreshSucceeds(k, t)
         /\ conns[k].pc = "retrying" => ENABLED Retry(k)
         /\ conns[k].pc = "handshake" =>
              ENABLED HandshakeFails(k, SseError(401))
         /\ (conns[k].pc = "done" /\ conns[k].outcome # "connected"
               /\ conns[k].client # NoClient) =>
              \/ conns[k].branch = "notAuth"
              \/ conns[k].branch = "redirect"
              \/ conns[k].branch = "refresh"
                   /\ conns[k].refreshThrown # NothingThrown)

\* a connect invocation whose MaxDepth-th retry is under way on a Client
\* of its own, every earlier attempt having met a 401 and a good refresh
C15_Witness ==
  \E k \in DOMAIN conns :
    /\ conns[k].retryCount = MaxDepth
    /\ conns[k].refreshCalls = MaxDepth
    /\ conns[k].pc = "handshake"
    /\ conns[k].client = <<k, MaxDepth>>
    /\ conns[k].outcome = "pending"

\* a connect invocation suspended in initiateOAuthFlow, at startOAuthFlow
InOAuthFlow(conn) == conn.pc \in {"oauth", "oauthFallback"}

\* C16: the step that enters initiateOAuthFlow, from either caller, removes
\* both tokens and stores the server URL while the redirect URL is still to
\* be computed and nothing has been assigned; the step in which the
\* redirect-URL computation fails assigns no redirect, writes nothing to
\* the storage or the status, and hands the error to the caller of
\* initiateOAuthFlow: towards connect's top-level catch through
\* handleAuthError, or out of the catch of handleTokenRefresh; the
\* top-level catch then sets the error status and writes nothing to the
\* storage; and a token is stored again only by a successful refresh.
C16_OAuthFlowClearsThenPropagates ==
  [][/\ \A k \in DOMAIN conns :
          /\ (~InOAuthFlow(conns[k]) /\ InOAuthFlow(conns'[k])) =>
               /\ sessionStorage'.access = NoItem
               /\ sessionStorage'.refresh = NoItem
               /\ sessionStorage'.serverUrl = sseUrl
               /\ windowLocation' = windowLocation
               /\ ~conns'[k].redirected
          /\ (InOAuthFlow(conns[k]) /\ ~InOAuthFlow(conns'[k])) =>
               /\ sessionStorage' = sessionStorage
               /\ connectionStatus' = connectionStatus
               /\ IF conns'[k].redirected
                    THEN /\ conns'[k].pc = "done"
                         /\ windowLocation' \in RedirectUrls
                    ELSE /\ windowLocation' = windowLocation
                         /\ conns[k].pc = "oauth" =>
                              /\ conns'[k].pc = "failing"
                              /\ conns'[k].outcome = "pending"
                         /\ conns[k].pc = "oauthFallback" =>
                              /\ conns'[k].pc = "done"
                              /\ conns'[k].refreshThrown =
                                   "startOAuthFlow error"
          /\ (conns[k].pc = "failing" /\ conns'[k].pc # "failing") =>
               /\ conns'[k].pc = "done"
               /\ conns'[k].outcome = "error"
               /\ connectionStatus' = "error"
               /\ sessionStorage' = sessionStorage
               /\ windowLocation' = windowLocation
     /\ (\/ sessionStorage'.access \notin {NoItem, sessionStorage.access}
         \/ sessionStorage'.refresh \notin {NoItem, sessionStorage.refresh})
          => \E j \in DOMAIN conns :
               conns[j].pc = "refreshing" /\ conns'[j].pc = "retrying"
    ]_vars

\* the fallback flow of a failed refresh ended by a failing startOAuthFlow:
\* the refresh token that was stored is gone and nothing was assigned
C16_Witness ==
  \E k \in DOMAIN conns :
    /\ conns[k].pc = "done"
    /\ conns[k].branch = "refresh"
    /\ conns[k].refreshThrown = "startOAuthFlow error"
    /\ ~conns[k].redirected
    /\ windowLocation = NoItem
    /\ sessionStorage.access = NoItem
    /\ sessionStorage.refresh = NoItem
    /\ sessionStorage.serverUrl = sseUrl
    /\ \E j \in DOMAIN conns :
         /\ conns[j].branch = "redirect"
         /\ conns[j].pc = "done"
         /\ conns[j].outcome = "error"

\* C17: in every step of every operation the history before the step is a
\* prefix of the history after it, and a step adds at most one entry.
C17_HistoryAppendOnly ==
  [][/\ Len(requestHistory') >= Len(requestHistory)
     /\ Len(requestHistory') <= Len(requestHistory) + 1
     /\ \A i \in DOMAIN requestHistory :
          requestHistory'[i] = requestHistory[i]
    ]_vars

\* the entry of a timed-out request followed by the entry of a
\* notification, kept in the order they were appended
C17_Witness ==
  /\ Len(requestHistory) = 2
  /\ IsRequest(requestHistory[1].call)
  /\ IsNotification(requestHistory[2].call)
  /\ requestHistory[1].response = Stringify([error |-> "Request timed out"])
  /\ requestHistory[2].response = Undefined

\* the connect invocations that take part in a step
ConnectsStepping ==
  {k \in DOMAIN conns' : k \notin DOMAIN conns \/ conns'[k] # conns[k]}

\* C18 as stated: makeRequest and sendNotification leave the status, the
\* capability set and the session handle alone, connect leaves the history
\* alone, and the status leaves connected only in a step of a connect
\* invocation issued after the one that published the session.
C18_OnlyLaterConnectLeavesConnected ==
  [][/\ calls' # calls =>
          UNCHANGED <<connectionStatus, serverCapabilities, mcpClient>>
     /\ conns' # conns => requestHistory' = requestHistory
     /\ (connectionStatus = "connected" /\ connectionStatus' # "connected")
          => \E k \in ConnectsStepping : k > mcpClient[1]
    ]_vars

\* C18 amended: makeRequest and sendNotification leave the status, the
\* capability set and the session handle alone and touch no connect
\* invocation, connect leaves the history, the toasts and the calls alone,
\* and the status leaves connected only when the top-level catch of some
\* connect invocation sets it to error; that invocation was issued after
\* or before the one that published the session, and the failure it
\* reports (of its own construction, its handshake or its redirect)
\* happened after or before the session was published.
C18_OnlyConnectLeavesConnected ==
  [][/\ calls' # calls =>
          /\ UNCHANGED <<connectionStatus, serverCapabilities, mcpClient>>
          /\ conns' = conns
     /\ conns' # conns => UNCHANGED <<requestHistory, toasts, calls>>
     /\ requestHistory' # requestHistory => calls' # calls
     /\ <<connectionStatus, serverCapabilities, mcpClient>>' #
          <<connectionStatus, serverCapabilities, mcpClient>>
          => conns' # conns
     /\ (connectionStatus = "connected" /\ connectionStatus' # "connected")
          => /\ connectionStatus' = "error"
             /\ \E k \in ConnectsStepping :
                  /\ k \in DOMAIN conns => conns[k].pc = "failing"
                  /\ conns'[k].pc = "done"
                  /\ conns'[k].outcome = "error"
    ]_vars

\* a connect issued first set the error status after a connect issued
\* second had published its session, with a request rejected on a session
C18_Witness ==
  /\ Len(conns) = 2
  /\ conns[1].outcome = "error" /\ conns[1].client # NoClient
  /\ conns[2].outcome = "connected"
  /\ mcpClient = conns[2].client
  /\ connectionStatus = "error"
  /\ \E c \in DOMAIN calls : calls[c].pc = "rejected" /\ Established(c)

\* C19: in every state the published session handle and the published
\* capability set were published by the same connect invocation, in the
\* attempt whose handshake succeeded; nothing is published before the first
\* success, and status connected implies a session handle is published.
C19_PublishedTogether ==
  /\ connectionStatus = "connected" => mcpClient # NoClient
  /\ mcpClient = NoClient =>
       /\ serverCapabilities = "<null>"
       /\ \A k \in DOMAIN conns : conns[k].outcome # "connected"
  /\ mcpClient # NoClient =>
       /\ mcpClient[1] \in DOMAIN conns
       /\ conns[mcpClient[1]].outcome = "connected"
       /\ conns[mcpClient[1]].client = mcpClient
       /\ conns[mcpClient[1]].retryCount = mcpClient[2]
       /\ serverCapabilities =
            (IF conns[mcpClient[1]].declared = Undefined
               THEN "<null>" ELSE conns[mcpClient[1]].declared)

\* two overlapping connects that both succeeded with different declared
\* capabilities; the one issued first finished last
C19_Witness ==
  /\ Len(conns) = 2
  /\ conns[1].outcome = "connected"
  /\ conns[2].outcome = "connected"
  /\ conns[1].declared # conns[2].declared
  /\ mcpClient = conns[1].client
  /\ connectionStatus = "connected"

\* C20: a published session handle is never reset to null; a step in which
\* a connect invocation fails, ends in the error status or returns quietly
\* leaves the session handle and the capability set as they were; and a
\* makeRequest or sendNotification issued while a handle is published,
\* whatever the status, is sent on that handle and not rejected as
\* not-connected.
C20_SessionSurvivesFailedConnect ==
  [][/\ mcpClient # NoClient => mcpClient' # NoClient
     /\ \A k \in ConnectsStepping :
          (\/ conns'[k].outcome \in {"error", "quiet"}
           \/ conns'[k].pc = "failing") =>
            UNCHANGED <<mcpClient, serverCapabilities>>
     /\ (Len(calls') > Len(calls) /\ mcpClient # NoClient) =>
          /\ calls'[Len(calls')].client = mcpClient
          /\ calls'[Len(calls')].pc = "awaiting"
          /\ calls'[Len(calls')].sent
          /\ calls'[Len(calls')].error = NoError
    ]_vars

\* a successful connect, then a connect that failed, then a request that
\* was sent on the session of the first and answered
C20_Witness ==
  /\ Len(conns) = 2
  /\ conns[1].outcome = "connected"
  /\ conns[2].outcome = "error"
  /\ connectionStatus = "error"
  /\ mcpClient = conns[1].client
  /\ serverCapabilities = "caps"
  /\ \E c \in DOMAIN calls :
       /\ calls[c].client = conns[1].client
       /\ calls[c].pc = "resolved"

====
